---------------------------- MODULE Spec2Model ----------------------------
(***************************************************************************)
(* Scrape-classify-persist pipeline of the job scraper.                    *)
(*                                                                         *)
(* Spec          the run orchestrator: the API entry point run_scrapers    *)
(*               with run_single_scraper (api/routers/scrape.py), the      *)
(*               store functions of models.py and the browser lifecycle of *)
(*               scraper_base.py.  run_scraper of main.py has the same     *)
(*               body; the mode field keeps its two differences (a session *)
(*               of its own per run, no "error" key in stats).             *)
(* SpecCli       the CLI alone: one main process over its three scrapers.  *)
(* SpecClassify  the pure classifier _is_entry_level of the three          *)
(*               production scrapers, applied to bounded texts.            *)
(* SpecExtract   the loop of scrape_jobs of the three scrapers over the    *)
(*               elements of a loaded page.                                *)
(* SpecIdentity  _extract_external_id of the three scrapers, called        *)
(*               repeatedly.                                               *)
(* SpecRelevance _calculate_relevance of the three scrapers.               *)
(* SpecHash      make_external_id of utils/hash.py, called twice.          *)
(* SpecRerun     Spec with the sites serving one unchanged page at every   *)
(*               pass.                                                     *)
(* SpecConc      two API requests at the same time, each with its own      *)
(*               session, on sites serving one page.                       *)
(*                                                                         *)
(* Fault model.  A store commit either takes effect and returns, or raises *)
(* and changes nothing in the database.  Session.rollback() and            *)
(* Session.close() do not raise.  Every step of start_browser and of       *)
(* close_browser may raise.  navigate_to may fail by a navigation error or *)
(* by a timeout.                                                           *)
(***************************************************************************)
EXTENDS Integers, Sequences, FiniteSets, TLC

\* ------------------------------------------------------------------ bounds
MaxRuns == 2        \* source runs the API requests of one behaviour ask for
MaxDrafts == 2      \* drafts one scrape_jobs call returns
MaxFaults == 2      \* injected store and browser faults
MaxPlatforms == 2   \* length of ScrapeRequest.platforms

\* scrapers_map of run_scrapers: the supported platform names.
scrapers_map == {"ArtStation", "GameJobs", "Hitmarker"}
\* Names the explored requests carry: two supported ones and an unsupported
\* one (the third supported platform runs under SpecCli).
PlatformNames == {"ArtStation", "GameJobs", "LinkedIn"}
\* The scrapers list of the CLI's main, in its order.
scrapers == <<"ArtStation", "GameJobs", "Hitmarker">>

\* External ids a page yields for one platform (the platform prefix is the
\* draft's platform field), and the values of the columns outside the key.
ExtIds == {"id1", "id2"}
FieldVals == {"v1", "v2"}

Procs == {1}

SeqUpTo(S, n) == UNION {[1..k -> S] : k \in 0..n}

\* ------------------------------------------------------------------- state
VARIABLES
    jobs,       \* table jobs: the committed Job rows, in insertion order
    job_runs,   \* table job_runs: the committed JobRun rows; id = position
    sess,       \* per process: the SQLAlchemy session (db)
    inv,        \* per process: the locals of the entry point and of the run
    hist,       \* per JobRun id: what the run did (history, not program state)
    faults,     \* faults injected so far
    reserved,   \* source runs requested so far
    now,        \* logical clock behind datetime.utcnow()
    cls,        \* classifier input and output (SpecClassify)
    ext,        \* extractor: the page and the drafts of one pass (SpecExtract)
    idn,        \* _extract_external_id: the calls made so far (SpecIdentity)
    rel,        \* _calculate_relevance input and output (SpecRelevance)
    hsh,        \* make_external_id: the calls made so far (SpecHash)
    site        \* the listing page the sites serve, when it is held fixed
                \* over the behaviour (SpecRerun)

vars == <<jobs, job_runs, sess, inv, hist, faults, reserved, now, cls, ext, idn, rel,
          hsh, site>>
orchVars == <<jobs, job_runs, sess, inv, hist, faults, reserved, now>>
pureVars == <<cls, ext, idn, rel, hsh, site>>

\* ----------------------------------------------------------------- records
NoBrowser == [playwright |-> "none", browser |-> "none", page |-> "none"]

NoStats == [platform |-> "", jobs_found |-> 0, jobs_saved |-> 0,
            jobs_duplicated |-> 0, status |-> "", error |-> ""]

NoResponse == [kind |-> "none", status |-> "", results |-> <<>>, exc |-> ""]

IdleInv == [mode |-> "none", pc |-> "idle", platforms |-> <<>>, pos |-> 0,
            all_stats |-> <<>>, job_run |-> 0, stats |-> NoStats,
            scraper |-> FALSE, browser |-> NoBrowser, jobs |-> <<>>, i |-> 0,
            exc |-> "none", response |-> NoResponse]

\* SessionLocal(): a session with nothing pending.
SessionLocal == [open |-> TRUE, failed |-> FALSE, new_jobs |-> <<>>,
                 new_runs |-> <<>>, dirty |-> <<>>]
ClosedSession == [SessionLocal EXCEPT !.open = FALSE]

NoHist == [platform |-> "", fetch |-> "none", returned |-> 0, attempts |-> 0,
           added |-> 0, other_failed |-> 0, ended |-> FALSE,
           stats |-> NoStats, leaked |-> FALSE]


\* ------------------------------------------------- store (models.py)
\* Mutant: the table has no unique constraint.
uix_platform_external_absent(rows, job) == TRUE

\* UniqueConstraint("platform", "external_id"): TRUE when the row may be
\* inserted beside rows.
uix_platform_external(rows, job) ==
    \A k \in 1..Len(rows) :
        ~(rows[k].platform = job.platform /\ rows[k].external_id = job.external_id)

\* Mutant: the flush inserts every pending row, the constraint unchecked.
flush_jobs_unchecked(rows, pending) ==
    [ok |-> TRUE,
     rows |-> rows \o [k \in 1..Len(pending) |->
                          [id |-> Len(rows) + k,
                           platform |-> pending[k].platform,
                           external_id |-> pending[k].external_id,
                           fields |-> pending[k].fields]]]

\* The INSERTs of a flush, in the order the objects were added: each row gets
\* the next primary key; the first row the constraint rejects fails the flush.
RECURSIVE flush_jobs(_, _)
flush_jobs(rows, pending) ==
    IF pending = <<>> THEN [ok |-> TRUE, rows |-> rows]
    ELSE IF ~uix_platform_external(rows, Head(pending))
         THEN [ok |-> FALSE, rows |-> rows]
         ELSE flush_jobs(Append(rows, [id |-> Len(rows) + 1,
                                       platform |-> Head(pending).platform,
                                       external_id |-> Head(pending).external_id,
                                       fields |-> Head(pending).fields]),
                         Tail(pending))

\* The UPDATEs and the JobRun INSERTs of a flush.
flush_runs(rows, s) ==
    LET updated == [k \in 1..Len(rows) |->
                       IF \E d \in 1..Len(s.dirty) : s.dirty[d].id = k
                       THEN s.dirty[CHOOSE d \in 1..Len(s.dirty) : s.dirty[d].id = k]
                       ELSE rows[k]]
        inserted == [k \in 1..Len(s.new_runs) |->
                       [s.new_runs[k] EXCEPT !.id = Len(rows) + k]]
    IN  updated \o inserted

\* db.commit() of a session made with autocommit=False: the pending objects
\* are flushed and committed together or not at all.  T = [jobs, job_runs].
commit(T, s, fault) ==
    LET fl == flush_jobs(T.jobs, s.new_jobs) IN
    IF s.failed
    THEN [T |-> T, sess |-> s, exc |-> "PendingRollbackError"]
    ELSE IF fault
    THEN [T |-> T, sess |-> [s EXCEPT !.failed = TRUE], exc |-> "OperationalError"]
    ELSE IF ~fl.ok
    THEN [T |-> T, sess |-> [s EXCEPT !.failed = TRUE], exc |-> "IntegrityError"]
    ELSE [T |-> [jobs |-> fl.rows, job_runs |-> flush_runs(T.job_runs, s)],
          sess |-> [s EXCEPT !.new_jobs = <<>>, !.new_runs = <<>>, !.dirty = <<>>],
          exc |-> "none"]

\* Mutant: the session is left as the failed commit left it.
rollback_skipped(s) == s

\* db.rollback(): the pending objects are expunged, the changed attributes
\* expire, the session is usable again.
rollback(s) ==
    [s EXCEPT !.failed = FALSE, !.new_jobs = <<>>, !.new_runs = <<>>, !.dirty = <<>>]

\* Mutant: the row of a stored key is overwritten (session.merge on the key)
\* instead of being rejected.
save_job_upsert(T, s, job_data, fault) ==
    LET hit == {k \in 1..Len(T.jobs) :
                   T.jobs[k].platform = job_data.platform
                   /\ T.jobs[k].external_id = job_data.external_id}
        r == commit(T, [s EXCEPT !.new_jobs = Append(@, job_data)], fault)
    IN  IF hit # {} /\ ~fault /\ ~s.failed
        THEN [T |-> [T EXCEPT !.jobs = [k \in 1..Len(T.jobs) |->
                                          IF k \in hit
                                          THEN [T.jobs[k] EXCEPT !.fields = job_data.fields]
                                          ELSE T.jobs[k]]],
              sess |-> s, exc |-> "none"]
        ELSE r

\* save_job(db, job_data): add, commit, refresh; on IntegrityError roll back
\* and raise it again; any other exception leaves the function as it is.
save_job(T, s, job_data, fault) ==
    LET r == commit(T, [s EXCEPT !.new_jobs = Append(@, job_data)], fault) IN
    IF r.exc = "IntegrityError"
    THEN [r EXCEPT !.sess = rollback(r.sess)]
    ELSE r

\* Mutant: status is left to the column default "pending".
start_job_run_pending(T, s, platform, fault) ==
    LET run == [id |-> 0, platform |-> platform, status |-> "pending",
                jobs_found |-> 0, jobs_saved |-> 0, error_message |-> "",
                finished_at |-> 0]
        r == commit(T, [s EXCEPT !.new_runs = Append(@, run)], fault)
    IN  [T |-> r.T, sess |-> r.sess, exc |-> r.exc,
         id |-> IF r.exc = "none" THEN Len(r.T.job_runs) ELSE 0]

\* start_job_run(db, scraper_name, platform): a JobRun with status "running"
\* and the column defaults, added and committed; the result carries its id.
start_job_run(T, s, platform, fault) ==
    LET run == [id |-> 0, platform |-> platform, status |-> "running",
                jobs_found |-> 0, jobs_saved |-> 0, error_message |-> "",
                finished_at |-> 0]
        r == commit(T, [s EXCEPT !.new_runs = Append(@, run)], fault)
    IN  [T |-> r.T, sess |-> r.sess, exc |-> r.exc,
         id |-> IF r.exc = "none" THEN Len(r.T.job_runs) ELSE 0]

\* Mutant: jobs_saved is written from jobs_found.
finish_job_run_found_as_saved(T, s, job_run, status, jobs_found, jobs_saved, error_message, fault, t) ==
    LET row == [T.job_runs[job_run] EXCEPT
                   !.status = status, !.jobs_found = jobs_found,
                   !.jobs_saved = jobs_found, !.error_message = error_message,
                   !.finished_at = t]
    IN  commit(T, [s EXCEPT !.dirty = <<row>>], fault)

\* finish_job_run(db, job_run, status, jobs_found, jobs_saved, error_message):
\* the five attributes are set on the object (the defaults 0, 0, None where
\* the caller passes nothing), then the session is committed.
finish_job_run(T, s, job_run, status, jobs_found, jobs_saved, error_message, fault, t) ==
    LET row == [T.job_runs[job_run] EXCEPT
                   !.status = status, !.jobs_found = jobs_found,
                   !.jobs_saved = jobs_saved, !.error_message = error_message,
                   !.finished_at = t]
    IN  commit(T, [s EXCEPT !.dirty = <<row>>], fault)

\* to_db_job(job) of the three scrapers: the draft's columns, copied.
to_db_job(job) ==
    [platform |-> job.platform, external_id |-> job.external_id,
     fields |-> job.fields]

\* --------------------------------------- page fetcher (scraper_base.py)
\* navigate_to(url): True when the page loaded; a navigation error or a
\* timeout is caught and turned into False.
navigate_to(outcome) == outcome = "loaded"

\* scrape_jobs(): the drafts extracted from the page, or the empty list when
\* navigate_to returned False.  No exception leaves it.
scrape_jobs(outcome, drafts) == IF ~navigate_to(outcome) THEN <<>> ELSE drafts

\* start_browser(): playwright, then the browser, then the page; k of the
\* three steps succeed.
start_browser(k) ==
    [playwright |-> IF k >= 1 THEN "open" ELSE "none",
     browser    |-> IF k >= 2 THEN "open" ELSE "none",
     page       |-> IF k >= 3 THEN "open" ELSE "none"]

\* close_browser(): page.close(), browser.close(), playwright.stop(), each
\* only for a handle that is set; step number failAt raises and the steps
\* after it are not reached (failAt = 4: none raises).
close_browser(b, failAt) ==
    [page       |-> IF b.page = "open" /\ 1 < failAt THEN "closed" ELSE b.page,
     browser    |-> IF b.browser = "open" /\ 2 < failAt THEN "closed" ELSE b.browser,
     playwright |-> IF b.playwright = "open" /\ 3 < failAt THEN "closed"
                    ELSE b.playwright]

\* ------------------------------------------------------------ inputs
Requests == SeqUpTo(PlatformNames, MaxPlatforms)

\* What an extractor may return for a platform's page: up to MaxDrafts
\* drafts, their external ids in any order and with repetitions, the other
\* columns as the page showed them at the time of the pass.
Drafts(platform) ==
    [platform : {platform}, external_id : ExtIds, fields : FieldVals]
Pages(platform) ==
    {pg \in SeqUpTo(Drafts(platform), MaxDrafts) :
        \A a, b \in 1..Len(pg) : pg[a].fields = pg[b].fields}

\* No page is held fixed: a site serves any page at every pass.
AnyPage == [fixed |-> FALSE, page |-> <<>>]

\* Mutant: the site serves any page at every pass also when a page is fixed.
Served_changing(platform) == Pages(platform)

\* The page a site serves at a pass: any page, or, when site holds a page
\* fixed, that page with the platform's name in its drafts.
Served(platform) ==
    IF site.fixed
    THEN {[k \in 1..Len(site.page) |-> [site.page[k] EXCEPT !.platform = platform]]}
    ELSE Pages(platform)

NavOutcomes == {"loaded", "navigation_error", "timeout"}

\* A fault may be injected while the budget lasts.
FaultChoices == IF faults < MaxFaults THEN {FALSE, TRUE} ELSE {FALSE}
Charge(fault) == faults' = IF fault THEN faults + 1 ELSE faults

T0 == [jobs |-> jobs, job_runs |-> job_runs]

\* The stats dict of a run, as run_single_scraper and run_scraper build it
\* (run_scraper's has no "error" key: the field then stays empty).
new_stats(platform) ==
    [platform |-> platform, jobs_found |-> 0, jobs_saved |-> 0,
     jobs_duplicated |-> 0, status |-> "pending", error |-> ""]

\* The "status" of the summary run_scrapers returns.
summary_status(all_stats) == "success"

\* ------------------------------------------------------- entry points
\* Mutant: the request is not validated.
run_scrapers_begin_unchecked(p) ==
    /\ inv[p].pc = "idle"
    /\ \E req \in Requests :
          /\ reserved + Len(req) <= MaxRuns
          /\ inv' = [inv EXCEPT ![p] =
                [IdleInv EXCEPT !.mode = "api", !.platforms = req, !.pos = 1,
                                !.pc = IF req = <<>> THEN "respond"
                                       ELSE "start_run"]]
          /\ sess' = [sess EXCEPT ![p] = SessionLocal]
          /\ reserved' = reserved + Len(req)
    /\ UNCHANGED <<jobs, job_runs, hist, faults, now, pureVars>>

\* run_scrapers up to its loop: get_db opens the session, an unsupported
\* name in the request is answered by HTTP 400 before any work.
run_scrapers_begin(p) ==
    /\ inv[p].pc = "idle"
    /\ \E req \in Requests :
          LET invalid == SelectSeq(req, LAMBDA x : x \notin scrapers_map) IN
          /\ reserved + Len(req) <= MaxRuns
          /\ IF invalid # <<>>
             THEN /\ inv' = [inv EXCEPT ![p] =
                        [IdleInv EXCEPT !.response =
                            [NoResponse EXCEPT !.kind = "http400"]]]
                  /\ sess' = [sess EXCEPT ![p] = ClosedSession]
                  /\ UNCHANGED reserved
             ELSE /\ inv' = [inv EXCEPT ![p] =
                        [IdleInv EXCEPT !.mode = "api", !.platforms = req,
                                        !.pos = 1,
                                        !.pc = IF req = <<>> THEN "respond"
                                               ELSE "start_run"]]
                  /\ sess' = [sess EXCEPT ![p] = SessionLocal]
                  /\ reserved' = reserved + Len(req)
    /\ UNCHANGED <<jobs, job_runs, hist, faults, now, pureVars>>

\* main up to its loop: the three scrapers in their fixed order.  One CLI
\* process is explored, on the initial store.
main_begin(p) ==
    /\ inv[p].pc = "idle"
    /\ reserved = 0
    /\ inv' = [inv EXCEPT ![p] =
          [IdleInv EXCEPT !.mode = "cli", !.platforms = scrapers, !.pos = 1,
                          !.pc = "start_run"]]
    /\ reserved' = reserved + Len(scrapers)
    /\ UNCHANGED <<jobs, job_runs, sess, hist, faults, now, pureVars>>

\* The exception in flight leaves the entry point: run_scrapers ends without
\* a summary and get_db closes the session; main ends, its session left open.
Propagate(me, s, e) ==
    [inv  |-> [IdleInv EXCEPT !.response = [NoResponse EXCEPT !.kind = "exception",
                                                            !.exc = e,
                                                            !.results = me.all_stats]],
     sess |-> IF me.mode = "api" THEN ClosedSession ELSE s]

\* ---------------------------------------------------------- one run
\* run_single_scraper / run_scraper up to the try: (the CLI opens its own
\* session,) start_job_run, the stats dict, scraper = None.  start_job_run is
\* outside the try: its exception leaves the function.
run_start(p) ==
    /\ inv[p].pc = "start_run"
    /\ \E fault \in FaultChoices :
          LET me == inv[p]
              platform == me.platforms[me.pos]
              db == IF me.mode = "cli" THEN SessionLocal ELSE sess[p]
              r == start_job_run(T0, db, platform, fault)
          IN  /\ Charge(fault)
              /\ jobs' = r.T.jobs
              /\ job_runs' = r.T.job_runs
              /\ IF r.exc = "none"
                 THEN /\ inv' = [inv EXCEPT ![p] =
                            [me EXCEPT !.job_run = r.id,
                                       !.stats = new_stats(platform),
                                       !.scraper = FALSE, !.browser = NoBrowser,
                                       !.jobs = <<>>, !.i = 0, !.exc = "none",
                                       !.pc = "try"]]
                      /\ sess' = [sess EXCEPT ![p] = r.sess]
                      /\ hist' = Append(hist, [NoHist EXCEPT !.platform = platform])
                 ELSE /\ inv' = [inv EXCEPT ![p] = Propagate(me, r.sess, r.exc).inv]
                      /\ sess' = [sess EXCEPT ![p] = Propagate(me, r.sess, r.exc).sess]
                      /\ UNCHANGED hist
    /\ UNCHANGED <<reserved, now, pureVars>>

\* scraper = scraper_class(headless); scraper.start_browser()
run_start_browser(p) ==
    /\ inv[p].pc = "try"
    /\ \E k \in 0..3 :
          /\ k < 3 => faults < MaxFaults
          /\ Charge(k < 3)
          /\ inv' = [inv EXCEPT ![p] =
                [@ EXCEPT !.scraper = TRUE, !.browser = start_browser(k),
                          !.exc = IF k < 3 THEN "BrowserError" ELSE "none",
                          !.pc = IF k < 3 THEN "except" ELSE "scrape"]]
    /\ UNCHANGED <<jobs, job_runs, sess, hist, reserved, now, pureVars>>

\* Mutant: the RunRecord is closed before the loop over the drafts.
run_scrape_closing(p) ==
    /\ inv[p].pc = "scrape"
    /\ \E outcome \in NavOutcomes, page \in Served(inv[p].stats.platform) :
          LET found == scrape_jobs(outcome, page) IN
          /\ inv' = [inv EXCEPT ![p] =
                [@ EXCEPT !.jobs = found, !.i = 1,
                          !.stats = [@ EXCEPT !.jobs_found = Len(found)],
                          !.pc = IF found = <<>> THEN "finish" ELSE "save"]]
          /\ hist' = [hist EXCEPT ![inv[p].job_run] =
                [@ EXCEPT !.fetch = IF navigate_to(outcome) THEN "ok" ELSE "failed",
                          !.returned = Len(found)]]
          /\ job_runs' = [job_runs EXCEPT ![inv[p].job_run] =
                [@ EXCEPT !.status = "success", !.jobs_found = Len(found)]]
    /\ UNCHANGED <<jobs, sess, faults, reserved, now, pureVars>>

\* jobs = scraper.scrape_jobs(); stats["jobs_found"] = len(jobs)
run_scrape(p) ==
    /\ inv[p].pc = "scrape"
    /\ \E outcome \in NavOutcomes, page \in Served(inv[p].stats.platform) :
          LET found == scrape_jobs(outcome, page) IN
          /\ inv' = [inv EXCEPT ![p] =
                [@ EXCEPT !.jobs = found, !.i = 1,
                          !.stats = [@ EXCEPT !.jobs_found = Len(found)],
                          !.pc = IF found = <<>> THEN "finish" ELSE "save"]]
          /\ hist' = [hist EXCEPT ![inv[p].job_run] =
                [@ EXCEPT !.fetch = IF navigate_to(outcome) THEN "ok" ELSE "failed",
                          !.returned = Len(found)]]
    /\ UNCHANGED <<jobs, job_runs, sess, faults, reserved, now, pureVars>>

\* Mutant: one except clause for every exception, counting a duplicate.
count_insert_any_duplicate(stats, exc) ==
    IF exc = "none" THEN [stats EXCEPT !.jobs_saved = @ + 1]
    ELSE [stats EXCEPT !.jobs_duplicated = @ + 1]

\* Mutant: the IntegrityError handler also counts the draft as saved.
count_insert_saved_on_duplicate(stats, exc) ==
    IF exc = "none" THEN [stats EXCEPT !.jobs_saved = @ + 1]
    ELSE IF exc = "IntegrityError"
    THEN [stats EXCEPT !.jobs_saved = @ + 1, !.jobs_duplicated = @ + 1]
    ELSE stats

\* The three handlers around save_job in the loop: the counter each outcome
\* moves.
count_insert(stats, exc) ==
    IF exc = "none" THEN [stats EXCEPT !.jobs_saved = @ + 1]
    ELSE IF exc = "IntegrityError" THEN [stats EXCEPT !.jobs_duplicated = @ + 1]
    ELSE stats

\* One pass of "for job in jobs": save_job(db, scraper.to_db_job(job)), then
\* the handler of its outcome; both except clauses roll the session back.
run_save(p) ==
    /\ inv[p].pc = "save"
    /\ \E fault \in FaultChoices :
          LET me == inv[p]
              r == save_job(T0, sess[p], to_db_job(me.jobs[me.i]), fault)
          IN  /\ Charge(fault)
              /\ jobs' = r.T.jobs
              /\ job_runs' = r.T.job_runs
              /\ sess' = [sess EXCEPT ![p] =
                    IF r.exc = "none" THEN r.sess ELSE rollback(r.sess)]
              /\ inv' = [inv EXCEPT ![p] =
                    [me EXCEPT !.stats = count_insert(me.stats, r.exc),
                               !.i = me.i + 1,
                               !.pc = IF me.i = Len(me.jobs) THEN "finish" ELSE "save"]]
              /\ hist' = [hist EXCEPT ![me.job_run] =
                    [@ EXCEPT !.attempts = @ + 1,
                              !.added = @ + (Len(r.T.jobs) - Len(jobs)),
                              !.other_failed =
                                  IF r.exc \notin {"none", "IntegrityError"}
                                  THEN @ + 1 ELSE @]]
    /\ UNCHANGED <<reserved, now, pureVars>>

\* finish_job_run(db, job_run, status="success", ...); stats["status"] =
\* "success".  A failing commit is an exception inside the try.
run_finish(p) ==
    /\ inv[p].pc = "finish"
    /\ \E fault \in FaultChoices :
          LET me == inv[p]
              r == finish_job_run(T0, sess[p], me.job_run, "success",
                                  me.stats.jobs_found, me.stats.jobs_saved, "",
                                  fault, now + 1)
          IN  /\ Charge(fault)
              /\ jobs' = r.T.jobs
              /\ job_runs' = r.T.job_runs
              /\ sess' = [sess EXCEPT ![p] = r.sess]
              /\ inv' = [inv EXCEPT ![p] =
                    IF r.exc = "none"
                    THEN [me EXCEPT !.stats = [@ EXCEPT !.status = "success"],
                                    !.pc = "finally"]
                    ELSE [me EXCEPT !.exc = r.exc, !.pc = "except"]]
    /\ now' = now + 1
    /\ UNCHANGED <<hist, reserved, pureVars>>

\* Mutant: the handler ends with "raise".
run_except_reraise(p) ==
    /\ inv[p].pc = "except"
    /\ \E fault \in FaultChoices :
          LET me == inv[p]
              r == finish_job_run(T0, rollback(sess[p]), me.job_run, "error",
                                  0, 0, me.exc, fault, now + 1)
          IN  /\ Charge(fault)
              /\ jobs' = r.T.jobs
              /\ job_runs' = r.T.job_runs
              /\ sess' = [sess EXCEPT ![p] = r.sess]
              /\ inv' = [inv EXCEPT ![p] =
                    IF r.exc = "none"
                    THEN [me EXCEPT !.stats =
                              [@ EXCEPT !.status = "error",
                                        !.error = IF me.mode = "api" THEN me.exc
                                                  ELSE @],
                                    !.pc = "finally"]
                    ELSE [me EXCEPT !.exc = r.exc, !.pc = "finally"]]
    /\ now' = now + 1
    /\ UNCHANGED <<hist, reserved, pureVars>>

\* except Exception as e: db.rollback(); finish_job_run(db, job_run,
\* status="error", error_message=str(e)); stats["status"] = "error" (and, in
\* run_single_scraper, stats["error"] = str(e)).  A failing commit leaves the
\* handler as a new exception, after the finally clause.
run_except(p) ==
    /\ inv[p].pc = "except"
    /\ \E fault \in FaultChoices :
          LET me == inv[p]
              r == finish_job_run(T0, rollback(sess[p]), me.job_run, "error",
                                  0, 0, me.exc, fault, now + 1)
          IN  /\ Charge(fault)
              /\ jobs' = r.T.jobs
              /\ job_runs' = r.T.job_runs
              /\ sess' = [sess EXCEPT ![p] = r.sess]
              /\ inv' = [inv EXCEPT ![p] =
                    IF r.exc = "none"
                    THEN [me EXCEPT !.stats =
                              [@ EXCEPT !.status = "error",
                                        !.error = IF me.mode = "api" THEN me.exc
                                                  ELSE @],
                                    !.exc = "none", !.pc = "finally"]
                    ELSE [me EXCEPT !.exc = r.exc, !.pc = "finally"]]
    /\ now' = now + 1
    /\ UNCHANGED <<hist, reserved, pureVars>>

\* finally: if scraper: close_browser(), its exception swallowed; (the CLI
\* closes its session;) then the function returns stats to the loop of the
\* entry point, or the exception in flight leaves it.
run_finally(p) ==
    /\ inv[p].pc = "finally"
    /\ \E failAt \in 1..4 :
          LET me == inv[p]
              handle == <<me.browser.page, me.browser.browser, me.browser.playwright>>
              b == IF me.scraper THEN close_browser(me.browser, failAt)
                   ELSE me.browser
              db == IF me.mode = "cli" THEN ClosedSession ELSE sess[p]
              last == me.pos = Len(me.platforms)
          IN  /\ failAt < 4 => me.scraper /\ handle[failAt] = "open"
                                /\ faults < MaxFaults
              /\ Charge(failAt < 4)
              /\ hist' = [hist EXCEPT ![me.job_run] =
                    [@ EXCEPT !.ended = TRUE, !.stats = me.stats,
                              !.leaked = "open" \in {b.page, b.browser, b.playwright}]]
              /\ IF me.exc # "none"
                 THEN /\ inv' = [inv EXCEPT ![p] = Propagate(me, db, me.exc).inv]
                      /\ sess' = [sess EXCEPT ![p] = Propagate(me, db, me.exc).sess]
                 ELSE /\ inv' = [inv EXCEPT ![p] =
                            [me EXCEPT !.browser = b,
                                       !.all_stats = Append(@, me.stats),
                                       !.pos = @ + 1,
                                       !.pc = IF last THEN "respond" ELSE "start_run"]]
                      /\ sess' = [sess EXCEPT ![p] = db]
    /\ UNCHANGED <<jobs, job_runs, reserved, now, pureVars>>

\* After the loop: run_scrapers returns the summary and get_db closes the
\* session; main prints its summary table.
run_scrapers_return(p) ==
    /\ inv[p].pc = "respond"
    /\ inv' = [inv EXCEPT ![p] =
          [IdleInv EXCEPT !.response =
              [kind |-> IF inv[p].mode = "api" THEN "summary" ELSE "printed",
               status |-> IF inv[p].mode = "api"
                          THEN summary_status(inv[p].all_stats) ELSE "",
               results |-> inv[p].all_stats, exc |-> ""]]]
    /\ sess' = [sess EXCEPT ![p] = ClosedSession]
    /\ UNCHANGED <<jobs, job_runs, hist, faults, reserved, now, pureVars>>

\* ------------------------------------------------------ specification
NoCls == [scraper |-> "", title |-> <<>>, description |-> <<>>,
          done |-> FALSE, result |-> FALSE]
NoExt == [scraper |-> "", page |-> <<>>, drafts |-> <<>>, done |-> FALSE]
NoRel == [scraper |-> "", company |-> <<>>, calls |-> {}]

Init ==
    /\ jobs = <<>>
    /\ job_runs = <<>>
    /\ sess = [p \in Procs |-> ClosedSession]
    /\ inv = [p \in Procs |-> IdleInv]
    /\ hist = <<>>
    /\ faults = 0
    /\ reserved = 0
    /\ now = 0
    /\ cls = NoCls
    /\ ext = NoExt
    /\ idn = <<>>
    /\ rel = NoRel
    /\ hsh = <<>>
    /\ site = AnyPage

Next ==
    \E p \in Procs :
        \/ run_scrapers_begin(p)
        \/ run_start(p)
        \/ run_start_browser(p)
        \/ run_scrape(p)
        \/ run_save(p)
        \/ run_finish(p)
        \/ run_except(p)
        \/ run_finally(p)
        \/ run_scrapers_return(p)

Spec == Init /\ [][Next]_vars

\* The CLI: main and run_scraper.
NextCli ==
    \E p \in Procs :
        \/ main_begin(p)
        \/ run_start(p)
        \/ run_start_browser(p)
        \/ run_scrape(p)
        \/ run_save(p)
        \/ run_finish(p)
        \/ run_except(p)
        \/ run_finally(p)
        \/ run_scrapers_return(p)

SpecCli == Init /\ [][NextCli]_vars


\* Reruns against unchanged content: the sites serve one page, the same at
\* every pass of the behaviour.
InitRerun ==
    /\ jobs = <<>>
    /\ job_runs = <<>>
    /\ sess = [p \in Procs |-> ClosedSession]
    /\ inv = [p \in Procs |-> IdleInv]
    /\ hist = <<>>
    /\ faults = 0
    /\ reserved = 0
    /\ now = 0
    /\ cls = NoCls
    /\ ext = NoExt
    /\ idn = <<>>
    /\ rel = NoRel
    /\ hsh = <<>>
    /\ site \in [fixed : {TRUE}, page : Pages("")]

SpecRerun == InitRerun /\ [][Next]_vars

\* Two API requests served at the same time, each with the session get_db
\* gives it; the steps of their runs interleave, each commit being one
\* transaction of the store.  The sites serve one page, the same to both.
Requesters == {1, 2}

\* The pages served to both: the postings' keys vary, their other columns
\* are the same in all.
SamePages == {pg \in Pages("") : \A k \in 1..Len(pg) : pg[k].fields = "v1"}

InitConc ==
    /\ jobs = <<>>
    /\ job_runs = <<>>
    /\ sess = [p \in Requesters |-> ClosedSession]
    /\ inv = [p \in Requesters |-> IdleInv]
    /\ hist = <<>>
    /\ faults = 0
    /\ reserved = 0
    /\ now = 0
    /\ cls = NoCls
    /\ ext = NoExt
    /\ idn = <<>>
    /\ rel = NoRel
    /\ hsh = <<>>
    /\ site \in [fixed : {TRUE}, page : SamePages]

NextConc ==
    \E p \in Requesters :
        \/ run_scrapers_begin(p)
        \/ run_start(p)
        \/ run_start_browser(p)
        \/ run_scrape(p)
        \/ run_save(p)
        \/ run_finish(p)
        \/ run_except(p)
        \/ run_finally(p)
        \/ run_scrapers_return(p)

SpecConc == InitConc /\ [][NextConc]_vars

\* ---------------------------------------------- classifier (scrapers/*.py)
\* A text is a sequence of characters.  str.lower() on the letters the texts
\* use.
Upper == <<"A", "B", "C", "D", "E", "F", "G", "H", "I", "J", "K", "L", "M",
           "N", "O", "P", "Q", "R", "S", "T", "U", "V", "W", "X", "Y", "Z">>
Lower == <<"a", "b", "c", "d", "e", "f", "g", "h", "i", "j", "k", "l", "m",
           "n", "o", "p", "q", "r", "s", "t", "u", "v", "w", "x", "y", "z">>
lower_char(c) ==
    IF \E k \in 1..Len(Upper) : Upper[k] = c
    THEN Lower[CHOOSE k \in 1..Len(Upper) : Upper[k] = c]
    ELSE c
lower(text) == [k \in 1..Len(text) |-> lower_char(text[k])]

\* keyword in text: substring search.
contains(text, keyword) ==
    \E k \in 1..(Len(text) - Len(keyword) + 1) :
        SubSeq(text, k, k + Len(keyword) - 1) = keyword

\* ArtStationScraper._is_entry_level: entry_keywords
ArtStation_entry_keywords ==
    {<<"j", "u", "n", "i", "o", "r">>,
     <<"e", "n", "t", "r", "y", " ", "l", "e", "v", "e", "l">>,
     <<"e", "n", "t", "r", "y", "-", "l", "e", "v", "e", "l">>,
     <<"a", "s", "s", "o", "c", "i", "a", "t", "e">>,
     <<"g", "r", "a", "d", "u", "a", "t", "e">>,
     <<"i", "n", "t", "e", "r", "n">>,
     <<"t", "r", "a", "i", "n", "e", "e">>,
     <<"0", "-", "2", " ", "y", "e", "a", "r", "s">>,
     <<"1", "-", "2", " ", "y", "e", "a", "r", "s">>,
     <<"e", "a", "r", "l", "y", " ", "c", "a", "r", "e", "e", "r">>,
     <<"l", "e", "s", "s", " ", "t", "h", "a", "n", " ", "2", " ", "y", "e", "a", "r", "s">>}
\* ArtStationScraper._is_entry_level: senior_keywords
ArtStation_senior_keywords ==
    {<<"s", "e", "n", "i", "o", "r">>,
     <<"l", "e", "a", "d">>,
     <<"p", "r", "i", "n", "c", "i", "p", "a", "l">>,
     <<"d", "i", "r", "e", "c", "t", "o", "r">>,
     <<"h", "e", "a", "d", " ", "o", "f">>,
     <<"5", "+", " ", "y", "e", "a", "r", "s">>,
     <<"3", "+", " ", "y", "e", "a", "r", "s">>,
     <<"e", "x", "p", "e", "r", "i", "e", "n", "c", "e", "d">>}
\* GameJobsScraper._is_entry_level: entry_keywords
GameJobs_entry_keywords ==
    {<<"j", "u", "n", "i", "o", "r">>,
     <<"e", "n", "t", "r", "y", " ", "l", "e", "v", "e", "l">>,
     <<"e", "n", "t", "r", "y", "-", "l", "e", "v", "e", "l">>,
     <<"a", "s", "s", "o", "c", "i", "a", "t", "e">>,
     <<"g", "r", "a", "d", "u", "a", "t", "e">>,
     <<"0", "-", "2", " ", "y", "e", "a", "r", "s">>,
     <<"1", "-", "2", " ", "y", "e", "a", "r", "s">>,
     <<"r", "e", "g", "u", "l", "a", "r">>}
\* GameJobsScraper._is_entry_level: senior_keywords
GameJobs_senior_keywords ==
    {<<"s", "e", "n", "i", "o", "r">>,
     <<"l", "e", "a", "d">>,
     <<"p", "r", "i", "n", "c", "i", "p", "a", "l">>,
     <<"d", "i", "r", "e", "c", "t", "o", "r">>,
     <<"5", "+", " ", "y", "e", "a", "r", "s">>,
     <<"3", "+", " ", "y", "e", "a", "r", "s">>}
\* HitmarkerScraper._is_entry_level: entry_keywords
Hitmarker_entry_keywords ==
    {<<"j", "u", "n", "i", "o", "r">>,
     <<"e", "n", "t", "r", "y", " ", "l", "e", "v", "e", "l">>,
     <<"e", "n", "t", "r", "y", "-", "l", "e", "v", "e", "l">>,
     <<"a", "s", "s", "o", "c", "i", "a", "t", "e">>,
     <<"g", "r", "a", "d", "u", "a", "t", "e">>,
     <<"i", "n", "t", "e", "r", "n">>,
     <<"t", "r", "a", "i", "n", "e", "e">>,
     <<"0", "-", "2", " ", "y", "e", "a", "r", "s">>,
     <<"1", "-", "2", " ", "y", "e", "a", "r", "s">>,
     <<"e", "a", "r", "l", "y", " ", "c", "a", "r", "e", "e", "r">>}
\* HitmarkerScraper._is_entry_level: senior_keywords
Hitmarker_senior_keywords ==
    {<<"s", "e", "n", "i", "o", "r">>,
     <<"l", "e", "a", "d">>,
     <<"p", "r", "i", "n", "c", "i", "p", "a", "l">>,
     <<"d", "i", "r", "e", "c", "t", "o", "r">>,
     <<"h", "e", "a", "d", " ", "o", "f">>,
     <<"5", "+", " ", "y", "e", "a", "r", "s">>,
     <<"3", "+", " ", "y", "e", "a", "r", "s">>,
     <<"e", "x", "p", "e", "r", "i", "e", "n", "c", "e", "d">>}

entry_keywords(scraper) ==
    IF scraper = "ArtStation" THEN ArtStation_entry_keywords
    ELSE IF scraper = "GameJobs" THEN GameJobs_entry_keywords
    ELSE Hitmarker_entry_keywords

senior_keywords(scraper) ==
    IF scraper = "ArtStation" THEN ArtStation_senior_keywords
    ELSE IF scraper = "GameJobs" THEN GameJobs_senior_keywords
    ELSE Hitmarker_senior_keywords

\* text_lower = f"{title} {description}".lower()
text_lower(title, description) == lower(title \o <<" ">> \o description)

\* Mutant: the default after both searches is False.
is_entry_level_default_false(scraper, title, description) ==
    LET text == text_lower(title, description) IN
    IF \E keyword \in entry_keywords(scraper) : contains(text, keyword) THEN TRUE
    ELSE FALSE

\* _is_entry_level(title, description), the same body in the three scrapers
\* over their own lists: the entry keywords are searched first and answer
\* True, then the senior keywords answer False, then the default is True.
is_entry_level(scraper, title, description) ==
    LET text == text_lower(title, description) IN
    IF \E keyword \in entry_keywords(scraper) : contains(text, keyword) THEN TRUE
    ELSE IF \E keyword \in senior_keywords(scraper) : contains(text, keyword) THEN FALSE
    ELSE TRUE

\* Words the bounded titles and descriptions are made of.
TitleWords ==
    {<<"J", "u", "n", "i", "o", "r">>,
     <<"S", "e", "n", "i", "o", "r">>,
     <<"L", "e", "a", "d">>,
     <<"A", "r", "t", "i", "s", "t">>,
     <<"I", "n", "t", "e", "r", "n", "a", "l">>,
     <<"R", "e", "g", "u", "l", "a", "r">>,
     <<"E", "n", "t", "r", "y">>}
DescriptionWords ==
    {<<"L", "e", "v", "e", "l">>,
     <<"E", "x", "p", "e", "r", "i", "e", "n", "c", "e", "d">>,
     <<"R", "e", "m", "o", "t", "e">>}

MaxWords == 2       \* words of a title

\* The texts of at most n words of W, joined by single spaces.
RECURSIVE Phrases(_, _)
Phrases(W, n) ==
    IF n = 0 THEN {<<>>}
    ELSE Phrases(W, n - 1) \cup
         {ph \o <<" ">> \o w : ph \in Phrases(W, n - 1) \ {<<>>}, w \in W} \cup W

InitClassify ==
    /\ jobs = <<>>
    /\ job_runs = <<>>
    /\ sess = [p \in Procs |-> ClosedSession]
    /\ inv = [p \in Procs |-> IdleInv]
    /\ hist = <<>>
    /\ faults = 0
    /\ reserved = 0
    /\ now = 0
    /\ cls \in [scraper : scrapers_map, title : Phrases(TitleWords, MaxWords) \ {<<>>},
                description : Phrases(DescriptionWords, 1),
                done : {FALSE}, result : {FALSE}]
    /\ ext = NoExt
    /\ idn = <<>>
    /\ rel = NoRel
    /\ hsh = <<>>
    /\ site = AnyPage

\* A scraper classifies the draft it builds.
classify ==
    /\ ~cls.done
    /\ cls' = [cls EXCEPT !.done = TRUE,
                          !.result = is_entry_level(cls.scraper, cls.title,
                                                    cls.description)]
    /\ UNCHANGED <<orchVars, ext, idn, rel, hsh, site>>

NextClassify == classify

SpecClassify == InitClassify /\ [][NextClassify]_vars


\* ------------------------------------------- identity (scrapers/*.py)
\* str.startswith
startswith(text, prefix) ==
    Len(text) >= Len(prefix) /\ SubSeq(text, 1, Len(prefix)) = prefix

Digits == {"0", "1", "2", "3", "4", "5", "6", "7", "8", "9"}
HexDigits == <<"0", "1", "2", "3", "4", "5", "6", "7", "8", "9",
               "a", "b", "c", "d", "e", "f">>

\* The characters of the explored URLs, in a fixed order: ord(c) is the
\* position of c.
Charset == <<".", "/", ":", "-", "_", "?", "=", "0", "1", "2", "3", "4", "5",
             "6", "7", "8", "9", "a", "b", "c", "d", "e", "f", "g", "h", "i",
             "j", "k", "l", "m", "n", "o", "p", "q", "r", "s", "t", "u", "v",
             "w", "x", "y", "z">>
ord(c) == CHOOSE k \in 1..Len(Charset) : Charset[k] = c

\* re.search(r'/jobs/(\d+)', url): group 1 of the leftmost match, the longest
\* run of digits after "/jobs/"; the empty text when nothing matches.
jobs_digits(url) ==
    LET pat == <<"/", "j", "o", "b", "s", "/">>
        at == {k \in 1..(Len(url) - Len(pat)) :
                  SubSeq(url, k, k + Len(pat) - 1) = pat /\ url[k + Len(pat)] \in Digits}
    IN  IF at = {} THEN <<>>
        ELSE LET k == CHOOSE a \in at : \A b \in at : a <= b
                 first == k + Len(pat)
                 last == CHOOSE e \in first..Len(url) :
                            /\ \A m \in first..e : url[m] \in Digits
                            /\ e = Len(url) \/ url[e + 1] \notin Digits
             IN  SubSeq(url, first, last)

\* hashlib.md5(url.encode()).hexdigest()[:12]: twelve hexadecimal digits that
\* depend on the text alone.  The digest is stood for by a positional
\* checksum, which like the truncated digest is not injective.
RECURSIVE weighted_sum(_, _, _)
weighted_sum(text, k, w) ==
    IF k > Len(text) THEN 0
    ELSE ((k + w) * ord(text[k]) + weighted_sum(text, k + 1, w)) % 16
md5_hexdigest_12(text) ==
    [d \in 1..12 |-> HexDigits[weighted_sum(text, 1, d) + 1]]

\* The f-string prefix of each scraper's _extract_external_id.
id_prefix(scraper) ==
    IF scraper = "ArtStation" THEN <<"a", "r", "t", "s", "t", "a", "t", "i", "o", "n", "_">>
    ELSE IF scraper = "GameJobs" THEN <<"g", "a", "m", "e", "j", "o", "b", "s", "_">>
    ELSE <<"h", "i", "t", "m", "a", "r", "k", "e", "r", "_">>

\* Mutant: the ids are returned without the platform prefix.
extract_external_id_bare(scraper, url) ==
    IF scraper # "GameJobs" /\ jobs_digits(url) # <<>> THEN jobs_digits(url)
    ELSE md5_hexdigest_12(url)

\* Mutant: the number of the call is appended to the id.
extract_external_id_numbered(scraper, url) ==
    id_prefix(scraper) \o md5_hexdigest_12(url) \o <<HexDigits[Len(idn) + 1]>>

\* _extract_external_id(url) of the three scrapers: ArtStation and Hitmarker
\* use the digits after "/jobs/" when the URL has them and the digest
\* otherwise; GameJobs always uses the digest.
extract_external_id(scraper, url) ==
    IF scraper # "GameJobs" /\ jobs_digits(url) # <<>>
    THEN id_prefix(scraper) \o jobs_digits(url)
    ELSE id_prefix(scraper) \o md5_hexdigest_12(url)

MaxCalls == 3       \* calls of _extract_external_id in one behaviour

\* URLs the calls are made with.
Urls ==
    {<<"h", "t", "t", "p", "s", ":", "/", "/", "w", "w", "w", ".", "a", "r", "t", "s", "t", "a", "t", "i", "o", "n", ".", "c", "o", "m", "/", "j", "o", "b", "s", "/", "1", "2">>,
     <<"h", "t", "t", "p", "s", ":", "/", "/", "h", "i", "t", "m", "a", "r", "k", "e", "r", ".", "n", "e", "t", "/", "j", "o", "b", "s", "/", "1", "2">>,
     <<"/", "j", "o", "b", "s", "/", "1", "2">>,
     <<"/", "j", "o", "b", "s", "/", "1", "2", "7">>,
     <<"/", "j", "o", "b", "s", "/", "a", "r", "t">>,
     <<"h", "t", "t", "p", "s", ":", "/", "/", "g", "a", "m", "e", "j", "o", "b", "s", ".", "c", "o", "/", "e", "n", "/", "j", "o", "b", "s", "/", "7">>}

OrchIdle ==
    /\ jobs = <<>>
    /\ job_runs = <<>>
    /\ sess = [p \in Procs |-> ClosedSession]
    /\ inv = [p \in Procs |-> IdleInv]
    /\ hist = <<>>
    /\ faults = 0
    /\ reserved = 0
    /\ now = 0

InitIdentity ==
    /\ OrchIdle
    /\ cls = NoCls
    /\ ext = NoExt
    /\ idn = <<>>
    /\ rel = NoRel
    /\ hsh = <<>>
    /\ site = AnyPage

\* A scraper computes the id of a URL; idn keeps the calls in their order.
extract_id_call ==
    /\ Len(idn) < MaxCalls
    /\ \E scraper \in scrapers_map, url \in Urls :
          idn' = Append(idn, [scraper |-> scraper, url |-> url,
                              external_id |-> extract_external_id(scraper, url)])
    /\ UNCHANGED <<orchVars, cls, ext, rel, hsh, site>>

NextIdentity == extract_id_call

SpecIdentity == InitIdentity /\ [][NextIdentity]_vars

\* ------------------------------------------ relevance (scrapers/*.py)
\* GameJobsScraper._calculate_relevance: outsourcing
outsourcing ==
    {<<"k", "e", "y", "w", "o", "r", "d", "s">>,
     <<"v", "i", "r", "t", "u", "o", "s">>,
     <<"s", "t", "r", "e", "a", "m", "l", "i", "n", "e">>,
     <<"p", "t", "w">>,
     <<"s", "p", "e", "r", "a", "s", "o", "f", "t">>,
     <<"l", "i", "q", "u", "i", "d", " ", "d", "e", "v", "e", "l", "o", "p", "m", "e", "n", "t">>,
     <<"m", "a", "g", "i", "c", " ", "m", "e", "d", "i", "a">>,
     <<"d", "e", "k", "o", "g", "o", "n">>}

\* any(comp in company.lower() for comp in outsourcing)
is_outsourcing(company) ==
    \E comp \in outsourcing : contains(lower(company), comp)

min(a, b) == IF a <= b THEN a ELSE b

\* Mutant: is_entry adds nothing.
calculate_relevance_entry_ignored(scraper, is_character, is_entry, company) ==
    IF is_character THEN 6 ELSE 0

\* Mutant: every scraper adds the company bonus to 6 + 4 and returns the sum.
calculate_relevance_bonus_unclamped(scraper, is_character, is_entry, company) ==
    (IF is_character THEN 6 ELSE 0) + (IF is_entry THEN 4 ELSE 0)
        + (IF is_outsourcing(company) THEN 1 ELSE 0)

\* _calculate_relevance: ArtStation and Hitmarker add 6 and 4 and return the
\* sum (they take no company); GameJobs adds 6, 3 and 1 for a company of the
\* outsourcing list, and returns min(score, 10).
calculate_relevance(scraper, is_character, is_entry, company) ==
    IF scraper = "GameJobs"
    THEN min((IF is_character THEN 6 ELSE 0) + (IF is_entry THEN 3 ELSE 0)
                 + (IF is_outsourcing(company) THEN 1 ELSE 0), 10)
    ELSE (IF is_character THEN 6 ELSE 0) + (IF is_entry THEN 4 ELSE 0)

\* Company names of the explored drafts ('Unknown' is the scrapers' default).
Companies ==
    {<<>>,
     <<"U", "n", "k", "n", "o", "w", "n">>,
     <<"V", "i", "r", "t", "u", "o", "s">>,
     <<"K", "e", "y", "w", "o", "r", "d", "s", " ", "S", "t", "u", "d", "i", "o", "s">>,
     <<"P", "T", "W">>,
     <<"R", "i", "o", "t", " ", "G", "a", "m", "e", "s">>}

InitRelevance ==
    /\ OrchIdle
    /\ cls = NoCls
    /\ ext = NoExt
    /\ idn = <<>>
    /\ rel \in [scraper : scrapers_map, company : Companies, calls : {{}}]
    /\ hsh = <<>>
    /\ site = AnyPage

\* The scraper scores a draft of its company; rel.calls keeps each pair of
\* flags with the score returned for it.
score_draft ==
    /\ \E is_character, is_entry \in BOOLEAN :
          /\ \A c \in rel.calls :
                ~(c.is_character = is_character /\ c.is_entry = is_entry)
          /\ rel' = [rel EXCEPT !.calls = @ \cup
                {[is_character |-> is_character, is_entry |-> is_entry,
                  relevance_score |-> calculate_relevance(rel.scraper, is_character,
                                                          is_entry, rel.company)]}]
    /\ UNCHANGED <<orchVars, cls, ext, idn, hsh, site>>

NextRelevance == score_draft

SpecRelevance == InitRelevance /\ [][NextRelevance]_vars

\* ------------------------------------------ extractors (scrapers/*.py)
\* The origin each scraper puts before a relative href.
origin(scraper) ==
    IF scraper = "ArtStation" THEN <<"h", "t", "t", "p", "s", ":", "/", "/", "w", "w", "w", ".", "a", "r", "t", "s", "t", "a", "t", "i", "o", "n", ".", "c", "o", "m">>
    ELSE IF scraper = "GameJobs" THEN <<"h", "t", "t", "p", "s", ":", "/", "/", "g", "a", "m", "e", "j", "o", "b", "s", ".", "c", "o">>
    ELSE <<"h", "t", "t", "p", "s", ":", "/", "/", "h", "i", "t", "m", "a", "r", "k", "e", "r", ".", "n", "e", "t">>

\* An element of the page: the href of its anchor, the text of its title and
\* of its company element; the empty text where the page has none.
\* a[href*="/jobs/"]
is_jobs_link(href) == contains(href, <<"/", "j", "o", "b", "s", "/">>)

\* ArtStation: url = href of the item's a[href*="/jobs/"], '' without one;
\* a url that starts with '/jobs/' gets the origin.
ArtStation_url(elem) ==
    LET url == IF is_jobs_link(elem.href) THEN elem.href ELSE <<>> IN
    IF startswith(url, <<"/", "j", "o", "b", "s", "/">>) THEN origin("ArtStation") \o url ELSE url

\* GameJobs: an href that starts with '/' gets base_url, any other is kept.
GameJobs_url(elem) ==
    IF startswith(elem.href, <<"/">>) THEN origin("GameJobs") \o elem.href
    ELSE elem.href

\* Hitmarker: an href that starts with "http" is kept, any other gets the
\* origin.
Hitmarker_url(elem) ==
    IF startswith(elem.href, <<"h", "t", "t", "p">>) THEN elem.href
    ELSE origin("Hitmarker") \o elem.href

\* The draft dict of the three loops, in the columns of the claims.
new_draft(scraper, url, title, company) ==
    [platform |-> scraper, external_id |-> extract_external_id(scraper, url),
     url |-> url, title |-> title, company |-> company]

Unknown == <<"U", "n", "k", "n", "o", "w", "n">>

\* ArtStationScraper.scrape_jobs, the loop over job_elements: an item without
\* url, title or company is skipped.
RECURSIVE ArtStation_extract(_, _)
ArtStation_extract(job_elements, found) ==
    IF job_elements = <<>> THEN found
    ELSE LET elem == Head(job_elements)
             url == ArtStation_url(elem)
         IN  IF url = <<>> \/ elem.title = <<>> \/ elem.company = <<>>
             THEN ArtStation_extract(Tail(job_elements), found)
             ELSE ArtStation_extract(Tail(job_elements),
                      Append(found, new_draft("ArtStation", url, elem.title,
                                             elem.company)))

\* GameJobsScraper.scrape_jobs, the loop over job_links: a link without url or
\* title is skipped; the company defaults to 'Unknown'.
RECURSIVE GameJobs_extract(_, _)
GameJobs_extract(job_links, found) ==
    IF job_links = <<>> THEN found
    ELSE LET link == Head(job_links)
             url == GameJobs_url(link)
         IN  IF url = <<>> \/ link.title = <<>>
             THEN GameJobs_extract(Tail(job_links), found)
             ELSE GameJobs_extract(Tail(job_links),
                      Append(found, new_draft("GameJobs", url, link.title,
                                             IF link.company = <<>> THEN Unknown
                                             ELSE link.company)))

\* HitmarkerScraper.scrape_jobs, the loop over job_elements: a url of
\* seen_urls is skipped, any other is added to it; then a title shorter than
\* 5 or longer than 200 is skipped; the company defaults to 'Unknown'.
RECURSIVE Hitmarker_extract(_, _, _)
Hitmarker_extract(job_elements, found, seen_urls) ==
    IF job_elements = <<>> THEN found
    ELSE LET elem == Head(job_elements)
             url == Hitmarker_url(elem)
         IN  IF url \in seen_urls
             THEN Hitmarker_extract(Tail(job_elements), found, seen_urls)
             ELSE IF Len(elem.title) < 5 \/ Len(elem.title) > 200
             THEN Hitmarker_extract(Tail(job_elements), found, seen_urls \cup {url})
             ELSE Hitmarker_extract(Tail(job_elements),
                      Append(found, new_draft("Hitmarker", url, elem.title,
                                             IF elem.company = <<>> THEN Unknown
                                             ELSE elem.company)),
                      seen_urls \cup {url})

\* The extraction of scrape_jobs on a loaded page: the elements the selector
\* matches (every item for ArtStation and GameJobs, the a[href*='/jobs/'] for
\* Hitmarker), then the loop.
extract(scraper, page) ==
    IF scraper = "ArtStation" THEN ArtStation_extract(page, <<>>)
    ELSE IF scraper = "GameJobs" THEN GameJobs_extract(page, <<>>)
    ELSE Hitmarker_extract(SelectSeq(page, LAMBDA elem : is_jobs_link(elem.href)),
                           <<>>, {})

MaxElements == 2    \* elements of a page

Hrefs ==
    {<<>>,
     <<"/", "j", "o", "b", "s", "/", "1", "2">>,
     <<"h", "t", "t", "p", "s", ":", "/", "/", "h", "i", "t", "m", "a", "r", "k", "e", "r", ".", "n", "e", "t", "/", "j", "o", "b", "s", "/", "1", "2">>,
     <<"/", "e", "n", "/", "j", "o", "b", "s", "/", "7">>,
     <<"e", "n", "/", "j", "o", "b", "s", "/", "7">>}
Titles ==
    {<<>>,
     <<"A", "r", "t">>,
     <<"A", "r", "t", "i", "s", "t">>}
Elements == [href : Hrefs, title : Titles, company : {<<>>, <<"V", "i", "r", "t", "u", "o", "s">>}]

InitExtract ==
    /\ OrchIdle
    /\ cls = NoCls
    /\ ext \in [scraper : scrapers_map, page : SeqUpTo(Elements, MaxElements),
                drafts : {<<>>}, done : {FALSE}]
    /\ idn = <<>>
    /\ rel = NoRel
    /\ hsh = <<>>
    /\ site = AnyPage

\* One extraction pass over the page.
extract_page ==
    /\ ~ext.done
    /\ ext' = [ext EXCEPT !.done = TRUE, !.drafts = extract(ext.scraper, ext.page)]
    /\ UNCHANGED <<orchVars, cls, idn, rel, hsh, site>>

NextExtract == extract_page

SpecExtract == InitExtract /\ [][NextExtract]_vars


\* ------------------------------------------------- stable hash (utils/hash.py)
\* str.strip(): the text without its leading and trailing white space.
Whitespace == {" "}
RECURSIVE lstrip(_)
lstrip(text) ==
    IF text # <<>> /\ Head(text) \in Whitespace THEN lstrip(Tail(text)) ELSE text
RECURSIVE rstrip(_)
rstrip(text) ==
    IF text # <<>> /\ text[Len(text)] \in Whitespace
    THEN rstrip(SubSeq(text, 1, Len(text) - 1))
    ELSE text
strip(text) == rstrip(lstrip(text))

\* sep.join(items)
RECURSIVE join(_, _)
join(sep, items) ==
    IF items = <<>> THEN <<>>
    ELSE IF Len(items) = 1 THEN items[1]
    ELSE items[1] \o sep \o join(sep, Tail(items))

\* hashlib.sha256(...).hexdigest(), taken as injective: the digest is the
\* hashed text under a tag.
sha256_hexdigest(text) == [sha256 |-> text]

\* "if part": the empty text is the only falsy str.
truthy(part) == part # <<>>

\* make_external_id(*parts): the parts that are not empty, each stripped and
\* lower-cased, joined with "|", then hashed.
make_external_id(parts) ==
    LET kept == SelectSeq(parts, truthy)
        normalized == join(<<"|">>, [k \in 1..Len(kept) |-> lower(strip(kept[k]))])
    IN  sha256_hexdigest(normalized)

MaxParts == 2       \* parts of a call of make_external_id

\* The parts explored: the empty text, a letter in both cases and with white
\* space around it, another letter, and white space alone.
PartTexts == {<<>>, <<"a">>, <<" ", "A", " ">>, <<"b">>, <<" ">>}
PartLists == SeqUpTo(PartTexts, MaxParts)

InitHash ==
    /\ OrchIdle
    /\ cls = NoCls
    /\ ext = NoExt
    /\ idn = <<>>
    /\ rel = NoRel
    /\ hsh = <<>>
    /\ site = AnyPage

\* A caller hashes a list of parts; hsh keeps the two calls to compare.
make_id_call ==
    /\ Len(hsh) < 2
    /\ \E parts \in PartLists :
          hsh' = Append(hsh, [parts |-> parts, digest |-> make_external_id(parts)])
    /\ UNCHANGED <<orchVars, cls, ext, idn, rel, site>>

NextHash == make_id_call

SpecHash == InitHash /\ [][NextHash]_vars

\* ------------------------------------------------------------ claims
Terminal == {"success", "error"}

KeyStored(rows, job) ==
    \E k \in 1..Len(rows) :
        rows[k].platform = job.platform /\ rows[k].external_id = job.external_id

\* Process p takes the pass of the save loop over its current draft.
SavePass(p) == inv[p].pc = "save" /\ inv'[p].i = inv[p].i + 1

\* C1: run_scrapers reports overall status "success" only when every
\* requested source's run ended "success", and "partial" when at least one
\* ended "error".
C1_OverallStatus ==
    \A p \in Procs :
        LET resp == inv[p].response
            failed == \E k \in 1..Len(resp.results) : resp.results[k].status = "error"
        IN  resp.kind = "summary" =>
                /\ resp.status = "success" => ~failed
                /\ failed => resp.status = "partial"

\* C2: when navigate_to fails to load the listing page, the source's run ends
\* with RunRecord status "error" and jobs_found = 0, never "success".
C2_FetchFailureEndsError ==
    \A r \in 1..Len(hist) :
        hist[r].fetch = "failed" /\ hist[r].ended =>
            job_runs[r].status = "error" /\ job_runs[r].jobs_found = 0

\* C3: _is_entry_level returns False whenever the lower-cased title and
\* description contain a senior keyword, also beside an entry keyword.
C3_SeniorPrecedence ==
    (cls.done /\ \E keyword \in senior_keywords(cls.scraper) :
                     contains(text_lower(cls.title, cls.description), keyword))
        => cls.result = FALSE

\* C4: whatever fails in the fetcher, the extractor or the store, the
\* orchestrated-run entry point returns its summary: no exception reaches its
\* caller.
C4_NoExceptionEscapes ==
    \A p \in Procs : inv[p].response.kind # "exception"

\* C5: a RunRecord is created with status "running"; its persisted status
\* changes at most once, to "success" or to "error", and from then on no step
\* of any run changes the record.
C5_RunRecordClosedOnce ==
    [][/\ Len(job_runs') >= Len(job_runs)
       /\ \A r \in 1..Len(job_runs') :
             IF r > Len(job_runs)
             THEN /\ job_runs'[r].status = "running"
                  /\ job_runs'[r].jobs_found = 0 /\ job_runs'[r].jobs_saved = 0
                  /\ job_runs'[r].error_message = "" /\ job_runs'[r].finished_at = 0
             ELSE /\ job_runs[r].status \in Terminal => job_runs'[r] = job_runs[r]
                  /\ job_runs'[r].status # job_runs[r].status =>
                        job_runs[r].status = "running" /\ job_runs'[r].status \in Terminal
      ]_vars

\* A closed RunRecord has seen a later run open and close its own record and
\* store a posting.
C5_Witness ==
    /\ Len(job_runs) = 2
    /\ job_runs[1].status = "error" /\ job_runs[1].finished_at > 0
    /\ job_runs[2].status = "success" /\ job_runs[2].jobs_saved > 0

C7_DuplicateLeavesRow ==
    [][\A p \in Procs :
          (SavePass(p) /\ KeyStored(jobs, inv[p].jobs[inv[p].i])) =>
              \A k \in 1..Len(jobs) :
                  (jobs[k].platform = inv[p].jobs[inv[p].i].platform
                   /\ jobs[k].external_id = inv[p].jobs[inv[p].i].external_id)
                      => k <= Len(jobs') /\ jobs'[k] = jobs[k]
      ]_vars

\* The pass just made was a duplicate whose draft differs from the stored row.
C7_Witness ==
    \E p \in Procs :
        /\ inv[p].pc \in {"save", "finish"}
        /\ inv[p].i = 2
        /\ inv[p].stats.jobs_duplicated = 1
        /\ \E k \in 1..Len(jobs) :
              /\ jobs[k].platform = inv[p].jobs[1].platform
              /\ jobs[k].external_id = inv[p].jobs[1].external_id
              /\ jobs[k].fields # inv[p].jobs[1].fields

\* C8: for every draft exactly one of three outcomes: stored and jobs_saved
\* + 1; rejected by the unique key and jobs_duplicated + 1; failed otherwise
\* and no counter moves.  In each case the run goes on with the next draft.
C8_InsertOutcomes ==
    [][\A p \in Procs :
          SavePass(p) =>
              LET draft == inv[p].jobs[inv[p].i]
                  st == inv[p].stats
                  st2 == inv'[p].stats
                  stored == /\ Len(jobs') = Len(jobs) + 1
                            /\ to_db_job(jobs'[Len(jobs')]) = to_db_job(draft)
                            /\ st2.jobs_saved = st.jobs_saved + 1
                            /\ st2.jobs_duplicated = st.jobs_duplicated
                            /\ faults' = faults
                  duplicate == /\ KeyStored(jobs, draft)
                               /\ jobs' = jobs
                               /\ st2.jobs_saved = st.jobs_saved
                               /\ st2.jobs_duplicated = st.jobs_duplicated + 1
                               /\ faults' = faults
                  other == /\ jobs' = jobs
                           /\ st2.jobs_saved = st.jobs_saved
                           /\ st2.jobs_duplicated = st.jobs_duplicated
                           /\ faults' = faults + 1
              IN  /\ stored \/ duplicate \/ other
                  /\ ~(stored /\ duplicate) /\ ~(stored /\ other) /\ ~(duplicate /\ other)
                  /\ inv'[p].exc = "none"
                  /\ inv'[p].jobs = inv[p].jobs
                  /\ inv'[p].pc = IF inv[p].i < Len(inv[p].jobs) THEN "save" ELSE "finish"
                  /\ job_runs' = job_runs
                  /\ ~sess'[p].failed
      ]_vars

\* One run met a duplicate and then a failure of another kind, and went on to
\* finish.
C8_Witness ==
    \E p \in Procs :
        /\ inv[p].pc = "finish"
        /\ inv[p].stats.jobs_duplicated = 1
        /\ hist[inv[p].job_run].other_failed = 1
        /\ inv[p].stats.jobs_saved = 0

\* C9: the RunRecord of a run that ended "success" has jobs_found = the number
\* of drafts scrape_jobs returned and jobs_saved = the number of postings the
\* run added to the store.
C9_SuccessCounts ==
    \A r \in 1..Len(job_runs) :
        job_runs[r].status = "success" =>
            /\ job_runs[r].jobs_found = hist[r].returned
            /\ job_runs[r].jobs_saved = hist[r].added

\* A run closed "success" having found two drafts and stored one of them.
C9_Witness ==
    \E r \in 1..Len(job_runs) :
        /\ job_runs[r].status = "success"
        /\ job_runs[r].jobs_found = 2
        /\ job_runs[r].jobs_saved = 1
        /\ hist[r].ended

\* C10: a run that ends "error" shows jobs_found = 0 and jobs_saved = 0 in its
\* RunRecord and in the stats it returns, and both carry the error message.
C10_ErrorRunCountsZero ==
    \A r \in 1..Len(hist) :
        hist[r].ended /\ hist[r].stats.status = "error" =>
            /\ job_runs[r].status = "error"
            /\ job_runs[r].jobs_found = 0 /\ job_runs[r].jobs_saved = 0
            /\ job_runs[r].error_message # ""
            /\ hist[r].stats.jobs_found = 0 /\ hist[r].stats.jobs_saved = 0
            /\ hist[r].stats.error = job_runs[r].error_message

C12_BrowserClosedOnExit ==
    \A r \in 1..Len(hist) : hist[r].ended => ~hist[r].leaked

\* C13: an insert is attempted only while the RunRecord of its run is stored
\* with status "running" (created and committed before, not yet finalized),
\* and a RunRecord closed "success" has had every draft of the run attempted.
C13_RunRecordBracketsInserts ==
    /\ \A p \in Procs :
          inv[p].pc = "save" =>
              /\ inv[p].job_run \in 1..Len(job_runs)
              /\ job_runs[inv[p].job_run].status = "running"
              /\ job_runs[inv[p].job_run].platform = inv[p].jobs[inv[p].i].platform
              /\ sess[p].new_runs = <<>>
    /\ \A r \in 1..Len(hist) :
          /\ hist[r].attempts > 0 => r <= Len(job_runs)
          /\ job_runs[r].status = "success" => hist[r].attempts = hist[r].returned

\* A run closed "success" after two insert attempts.
C13_Witness ==
    \E r \in 1..Len(job_runs) :
        /\ job_runs[r].status = "success"
        /\ hist[r].attempts = 2
        /\ hist[r].ended

\* The URL a scraper gives an element.
element_url(scraper, elem) ==
    IF scraper = "ArtStation" THEN ArtStation_url(elem)
    ELSE IF scraper = "GameJobs" THEN GameJobs_url(elem)
    ELSE Hitmarker_url(elem)

\* An element with a jobs link, a title of five characters or more and a
\* company: every scraper's field checks let it through.
Complete(elem) ==
    is_jobs_link(elem.href) /\ Len(elem.title) >= 5 /\ elem.company # <<>>

\* C14: when two or more complete elements of the page resolve to the same
\* URL, the pass returns exactly one draft with that URL, built from the
\* first of them.
C14_DedupInPass ==
    ext.done =>
        \A a, b \in 1..Len(ext.page) :
            (a < b /\ Complete(ext.page[a]) /\ Complete(ext.page[b])
             /\ element_url(ext.scraper, ext.page[a]) = element_url(ext.scraper, ext.page[b])
             /\ \A c \in 1..(a - 1) :
                   element_url(ext.scraper, ext.page[c]) # element_url(ext.scraper, ext.page[a]))
            => /\ Cardinality({k \in 1..Len(ext.drafts) :
                      ext.drafts[k].url = element_url(ext.scraper, ext.page[a])}) = 1
               /\ \A k \in 1..Len(ext.drafts) :
                      ext.drafts[k].url = element_url(ext.scraper, ext.page[a]) =>
                          ext.drafts[k].title = ext.page[a].title

\* An element that has a URL and a title.
HasUrlAndTitle(elem) == is_jobs_link(elem.href) /\ elem.title # <<>>

\* C15: on a page whose elements with URL and title have different URLs, the
\* pass returns one draft for each element that has a URL and a title, in the
\* page's order, and none for the others, whatever the company holds.
C15_ExactlyWellFormed ==
    LET good == SelectSeq(ext.page, HasUrlAndTitle) IN
    (/\ ext.done
     /\ \A a, b \in 1..Len(good) :
           element_url(ext.scraper, good[a]) = element_url(ext.scraper, good[b]) => a = b)
        => /\ Len(ext.drafts) = Len(good)
           /\ \A k \in 1..Len(good) :
                 /\ k <= Len(ext.drafts)
                 /\ ext.drafts[k].url = element_url(ext.scraper, good[k])
                 /\ ext.drafts[k].title = good[k].title

\* C16: the URL of every draft is absolute: it starts with the origin of the
\* draft's source followed by "/", or it is an href of the page that carries
\* its own scheme and host.
C16_AbsoluteUrl ==
    ext.done =>
        \A k \in 1..Len(ext.drafts) :
            LET url == ext.drafts[k].url IN
            \/ startswith(url, origin(ext.scraper) \o <<"/">>)
            \/ /\ \/ startswith(url, <<"h", "t", "t", "p", "s", ":", "/", "/">>)
                  \/ startswith(url, <<"h", "t", "t", "p", ":", "/", "/">>)
               /\ \E e \in 1..Len(ext.page) : ext.page[e].href = url

SourcePrefix(scraper) ==
    IF scraper = "ArtStation"
    THEN <<"a", "r", "t", "s", "t", "a", "t", "i", "o", "n", "_">>
    ELSE IF scraper = "GameJobs"
    THEN <<"g", "a", "m", "e", "j", "o", "b", "s", "_">>
    ELSE <<"h", "i", "t", "m", "a", "r", "k", "e", "r", "_">>

\* C18: every id starts with the prefix of its own source, and the ids two
\* different sources return differ, for the same URL and for different ones.
C18_NoCrossSourceCollision ==
    /\ \A a \in 1..Len(idn) :
          /\ startswith(idn[a].external_id, SourcePrefix(idn[a].scraper))
          /\ Len(idn[a].external_id) > Len(SourcePrefix(idn[a].scraper))
    /\ \A a, b \in 1..Len(idn) :
          idn[a].scraper # idn[b].scraper => idn[a].external_id # idn[b].external_id

\* The three scrapers were called with one URL that has a numeric id: two ids
\* come from the digits, the third from the digest.
C18_Witness ==
    /\ Len(idn) = 3
    /\ idn[1].url = idn[2].url /\ idn[2].url = idn[3].url
    /\ jobs_digits(idn[1].url) # <<>>
    /\ {idn[1].scraper, idn[2].scraper, idn[3].scraper} = scrapers_map

\* C19: with no company bonus, each scraper scores (true, true) above
\* (true, false), (true, false) above (false, false), and (false, false) 0.
C19_ScoreMonotonic ==
    \A tt, tf, ff \in rel.calls :
        (/\ rel.scraper = "GameJobs" => ~is_outsourcing(rel.company)
         /\ tt.is_character /\ tt.is_entry
         /\ tf.is_character /\ ~tf.is_entry
         /\ ~ff.is_character /\ ~ff.is_entry)
            => /\ tt.relevance_score > tf.relevance_score
               /\ tf.relevance_score > ff.relevance_score
               /\ ff.relevance_score = 0

\* GameJobs has scored the three pairs of flags for a company outside its
\* list.
C19_Witness ==
    /\ rel.scraper = "GameJobs"
    /\ ~is_outsourcing(rel.company)
    /\ rel.company # <<>>
    /\ \E tt, tf, ff \in rel.calls :
          /\ tt.is_character /\ tt.is_entry
          /\ tf.is_character /\ ~tf.is_entry
          /\ ~ff.is_character /\ ~ff.is_entry

\* C20: every score a scraper returns for a draft is an integer from 0 to 10,
\* for every pair of flags and every company.
C20_ScoreRange ==
    \A c \in rel.calls : c.relevance_score \in 0..10

\* GameJobs has scored a character, entry-level draft of an outsourcing
\* company.
C20_Witness ==
    /\ rel.scraper = "GameJobs"
    /\ is_outsourcing(rel.company)
    /\ \E c \in rel.calls :
          c.is_character /\ c.is_entry /\ c.relevance_score = 10

\* C21: _is_entry_level returns True whenever the lower-cased title and
\* description contain no entry keyword and no senior keyword of the scraper.
C21_DefaultEntryLevel ==
    (/\ cls.done
     /\ ~\E keyword \in entry_keywords(cls.scraper) :
            contains(text_lower(cls.title, cls.description), keyword)
     /\ ~\E keyword \in senior_keywords(cls.scraper) :
            contains(text_lower(cls.title, cls.description), keyword))
        => cls.result = TRUE

\* A two-word title and a description without any keyword were classified.
C21_Witness ==
    /\ cls.done
    /\ cls.result = TRUE
    /\ Len(cls.title) > 7
    /\ cls.description # <<>>
    /\ ~\E keyword \in entry_keywords(cls.scraper) \cup senior_keywords(cls.scraper) :
           contains(text_lower(cls.title, cls.description), keyword)

\* C22: while a source run of an invocation is under way, every earlier run
\* of the invocation is over, in the requested order, with its RunRecord
\* closed and every browser handle it started closed.
C22_OneRunAtATime ==
    \A p \in Procs :
        inv[p].pc \in {"try", "scrape", "save", "finish", "except", "finally"} =>
            \A k \in 1..(inv[p].pos - 1) :
                LET r == inv[p].job_run - k IN
                /\ r \in 1..Len(hist)
                /\ hist[r].platform = inv[p].platforms[inv[p].pos - k]
                /\ hist[r].ended
                /\ job_runs[r].status \in Terminal
                /\ ~hist[r].leaked

\* C24: whenever the run is about to call save_job or finish_job_run, the
\* session holds nothing of a failed save: it is not in the failed state and
\* has no pending object.
C24_RolledBackBeforeNextUse ==
    \A p \in Procs :
        inv[p].pc \in {"save", "finish"} =>
            /\ ~sess[p].failed
            /\ sess[p].new_jobs = <<>>
            /\ sess[p].dirty = <<>>

\* The run is about to save its second draft after the first save failed for
\* a reason other than a duplicate key.
C24_Witness ==
    \E p \in Procs :
        /\ inv[p].pc = "save"
        /\ inv[p].i = 2
        /\ hist[inv[p].job_run].other_failed = 1
        /\ Len(jobs) = 0

\* C25: when the run function has returned or raised, the RunRecord it
\* opened is "success" or "error".
C25_RunRecordTerminalOnExit ==
    \A r \in 1..Len(hist) : hist[r].ended => job_runs[r].status \in Terminal

\* C29: in a run and in the stats it returns, jobs_saved + jobs_duplicated <=
\* jobs_found; in the stats of a run that ended "success" the two sides are
\* equal exactly when no insert failed for another reason than a duplicate.
C29_CountsBounded ==
    /\ \A p \in Procs :
          /\ inv[p].stats.jobs_saved + inv[p].stats.jobs_duplicated
                <= inv[p].stats.jobs_found
          /\ \A k \in 1..Len(inv[p].all_stats) :
                inv[p].all_stats[k].jobs_saved + inv[p].all_stats[k].jobs_duplicated
                    <= inv[p].all_stats[k].jobs_found
          /\ \A k \in 1..Len(inv[p].response.results) :
                inv[p].response.results[k].jobs_saved
                    + inv[p].response.results[k].jobs_duplicated
                    <= inv[p].response.results[k].jobs_found
    /\ \A r \in 1..Len(hist) :
          (hist[r].ended /\ hist[r].stats.status = "success") =>
              ((hist[r].stats.jobs_saved + hist[r].stats.jobs_duplicated
                    = hist[r].stats.jobs_found)
               <=> hist[r].other_failed = 0)

\* A run returned "success" stats with one draft saved, none duplicated and
\* two found: one insert failed otherwise.
C29_Witness ==
    \E r \in 1..Len(hist) :
        /\ hist[r].ended
        /\ hist[r].stats.status = "success"
        /\ hist[r].stats.jobs_found = 2
        /\ hist[r].stats.jobs_saved = 1
        /\ hist[r].stats.jobs_duplicated = 0
        /\ hist[r].other_failed = 1

\* C30: run_scrapers starts its loop only over requests whose every name is
\* supported, and the step that answers 400 creates no RunRecord, starts no
\* browser and stores no posting.
C30_InvalidRequestRejected ==
    /\ [](\A p \in Procs :
             /\ \A k \in 1..Len(inv[p].platforms) :
                   inv[p].platforms[k] \in scrapers_map
             /\ inv[p].response.kind = "http400" =>
                   /\ inv[p].pc = "idle"
                   /\ inv[p].job_run = 0
                   /\ inv[p].browser = NoBrowser
                   /\ ~sess[p].open)
    /\ [](\A r \in 1..Len(job_runs) : job_runs[r].platform \in scrapers_map)
    /\ [][\A p \in Procs :
             (inv'[p].response.kind = "http400" /\ inv'[p] # inv[p]) =>
                 /\ jobs' = jobs
                 /\ job_runs' = job_runs
                 /\ hist' = hist
                 /\ reserved' = reserved
         ]_vars

\* A request was answered 400 after an earlier request had stored a posting.
C30_Witness ==
    \E p \in Procs :
        /\ inv[p].response.kind = "http400"
        /\ Len(job_runs) = 1
        /\ Len(jobs) = 1

\* C27: in a Hitmarker pass, a URL carried by two or more link elements of
\* the page, one of them at least with a title of 5 to 200 characters, gives
\* exactly one draft, whatever the order of the elements.
C27_RepeatedUrlOneDraft ==
    (ext.done /\ ext.scraper = "Hitmarker") =>
        \A a, b \in 1..Len(ext.page) :
            (/\ a # b
             /\ is_jobs_link(ext.page[a].href)
             /\ is_jobs_link(ext.page[b].href)
             /\ Hitmarker_url(ext.page[a]) = Hitmarker_url(ext.page[b])
             /\ Len(ext.page[a].title) >= 5
             /\ Len(ext.page[a].title) <= 200)
            => Cardinality({k \in 1..Len(ext.drafts) :
                   ext.drafts[k].url = Hitmarker_url(ext.page[a])}) = 1

\* The trimmed, lower-cased parts of a list, in order.
trimmed_lowered(parts) == [k \in 1..Len(parts) |-> lower(strip(parts[k]))]

\* C23: two calls of make_external_id return the same digest exactly when
\* their lists of trimmed, lower-cased parts are equal in content and order.
C23_DigestIffSameNormalizedParts ==
    \A a, b \in 1..Len(hsh) :
        (hsh[a].digest = hsh[b].digest)
            <=> (trimmed_lowered(hsh[a].parts) = trimmed_lowered(hsh[b].parts))

\* A run that fetched its page and ended.
Fetched(r) == hist[r].ended /\ hist[r].fetch = "ok"

\* A run in which no store operation failed: every insert was answered and
\* the RunRecord was closed as "success".
NoStoreFailure(r) == hist[r].other_failed = 0 /\ hist[r].stats.status = "success"

\* What the second of two runs of a source shows when it stored nothing new.
NothingNew(r1, r2) ==
    /\ hist[r2].added = 0
    /\ job_runs[r2].status = "success"
    /\ job_runs[r2].jobs_saved = 0
    /\ job_runs[r2].jobs_found = job_runs[r1].jobs_found

StatsOf(r) ==
    IF hist[r].ended THEN hist[r].stats
    ELSE inv[CHOOSE p \in DOMAIN inv : inv[p].job_run = r].stats

\* The keys of the postings a run has tried to insert so far.
AttemptedKeys(r) ==
    {<<hist[r].platform, site.page[k].external_id>> : k \in 1..hist[r].attempts}

\* The keys of the stored postings.
StoredKeys == {<<jobs[k].platform, jobs[k].external_id>> : k \in 1..Len(jobs)}

RECURSIVE SumSaved(_)
SumSaved(n) == IF n = 0 THEN 0 ELSE StatsOf(n).jobs_saved + SumSaved(n - 1)

\* What the runs of the two requests show of their inserts: each insert tried
\* was counted as saved or as duplicate, the saved ones are as many as the
\* distinct keys tried, and these keys are the stored ones, one row each.
InsertsSettled ==
    /\ \A r \in 1..Len(hist) :
          StatsOf(r).jobs_saved + StatsOf(r).jobs_duplicated = hist[r].attempts
    /\ SumSaved(Len(hist)) = Cardinality(UNION {AttemptedKeys(r) : r \in 1..Len(hist)})
    /\ StoredKeys = UNION {AttemptedKeys(r) : r \in 1..Len(hist)}
    /\ Len(jobs) = Cardinality(StoredKeys)

==========================================================================
